---- MODULE Spec2Model ----
(***************************************************************************)
(* Model of python/tensorflowjs/converters/converter.py: format            *)
(* resolution, flag validation, conversion routing and the three dispatch  *)
(* routines, as one sequential run of main().                              *)
(*                                                                         *)
(* Python's None is the string "None"; the empty string is "".  A value is *)
(* truthy when it is neither.  Paths are the names "in" (input_path),      *)
(* "out" (output_path) and "tmp" (the tempfile.mktemp name); the file      *)
(* system maps each to what is found there.                                *)
(***************************************************************************)
EXTENDS Integers, Sequences, FiniteSets, TLC

VARIABLES
  FLAGS,              \* parsed command line (setup_arugments)
  fs,                 \* file system: kind of entry at "in", "out", "tmp"
  pc,                 \* position in main / the dispatch routines
  input_format,       \* main's local, after standardisation
  output_format,      \* main's local, after standardisation
  quantization_dtype, \* main's local
  h5_path,            \* argument of dispatch_keras_h5_to_tensorflowjs_conversion
  err,                \* the exception main terminated with, NoErr if none
  invoked,            \* conversion routines called by main's router
  calls,              \* framework/collaborator calls, each with the open contexts
  ctx,                \* stack of entered graph/session contexts
  written,            \* artifacts were written to output_path
  printed,            \* version information was printed
  tempCreated         \* model.save(temp_h5_path) has created the temporary file

vars == <<FLAGS, fs, pc, input_format, output_format, quantization_dtype,
          h5_path, err, invoked, calls, ctx, written, printed, tempCreated>>

None == "None"
Truthy(v) == v # None /\ v # ""

\* argparse choices of --input_format and --output_format
InputFormats ==
  {"keras", "keras_saved_model", "tf_saved_model", "tf_session_bundle",
   "tf_frozen_model", "tf_hub", "tfjs_layers_model", "tensorflowjs"}
OutputFormats == {"keras", "tfjs_layers_model", "tfjs_graph_model", "tensorflowjs"}

\* quantization.QUANTIZATION_BYTES_TO_DTYPES (keys are the argparse choices)
QUANTIZATION_BYTES_TO_DTYPES == [b \in {"1", "2"} |-> IF b = "1" THEN "uint8" ELSE "uint16"]

\* every command line the option schema accepts (values the model distinguishes)
FlagSpace ==
  [show_version       : BOOLEAN,
   input_path         : {None, "in"},
   output_path        : {None, "", "out"},
   input_format       : InputFormats,
   output_format      : OutputFormats \cup {None},
   output_node_names  : {None, "", "logits"},
   signature_name     : {None, "", "default"},
   quantization_bytes : {None} \cup DOMAIN QUANTIZATION_BYTES_TO_DTYPES]

InKinds  == {"absent", "dir", "json", "other"}   \* "json"/"other": a regular file
OutKinds == {"absent", "dir", "file"}

NoErr == [type |-> "None", tag |-> "", args |-> <<>>]
Error(type, tag, args) == [type |-> type, tag |-> tag, args |-> args]

\* what os.path sees at a path ("" names nothing)
Kind(path) ==
  IF path = "in" THEN fs.inp
  ELSE IF path = "out" THEN fs.out
  ELSE IF path = "tmp" THEN fs.tmp
  ELSE "absent"
IsFile(k) == k \in {"json", "other", "file"}

----------------------------------------------------------------------------
(* _standardize_input_output_formats: result is either a raised error or   *)
(* the returned pair.                                                      *)

input_format_is_keras(inf) == inf = "keras" \/ inf = "keras_saved_model"
\* variant: tf_hub left out of the graph family
input_format_is_tf_without_hub(inf) ==
  inf = "tf_frozen_model" \/ inf = "tf_saved_model" \/ inf = "tf_session_bundle"

input_format_is_tf(inf) ==
  inf = "tf_frozen_model" \/ inf = "tf_hub" \/ inf = "tf_saved_model" \/
  inf = "tf_session_bundle"

Returned(inf, outf) == [raised |-> NoErr, ret |-> <<inf, outf>>]
Raised(e) == [raised |-> e, ret |-> <<>>]

\* variant: the deprecated input alias is only rejected when an output
\* format is given
standardize_alias_checked_late(inf, outf) ==
  IF outf = None
  THEN IF input_format_is_keras(inf) THEN Returned(inf, "tfjs_layers_model")
       ELSE IF input_format_is_tf(inf) THEN Returned(inf, "tfjs_graph_model")
       ELSE IF inf = "tfjs_layers_model" THEN Returned(inf, "keras")
       ELSE Returned(inf, outf)
  ELSE IF inf = "tensorflowjs"
  THEN Raised(Error("ValueError", "deprecated_input_format", <<"tfjs_layers_model">>))
  ELSE IF outf = "tensorflowjs"
  THEN IF input_format_is_keras(inf)
       THEN Raised(Error("ValueError", "deprecated_output_format",
                         <<inf, "tfjs_layers_model">>))
       ELSE IF input_format_is_tf(inf)
       THEN Raised(Error("ValueError", "deprecated_output_format",
                         <<inf, "tfjs_graph_model">>))
       ELSE Returned(inf, outf)
  ELSE Returned(inf, outf)

_standardize_input_output_formats(inf, outf) ==
  IF inf = "tensorflowjs"
  THEN Raised(Error("ValueError", "deprecated_input_format", <<"tfjs_layers_model">>))
  ELSE IF outf = None
  THEN IF input_format_is_keras(inf) THEN Returned(inf, "tfjs_layers_model")
       ELSE IF input_format_is_tf(inf) THEN Returned(inf, "tfjs_graph_model")
       ELSE IF inf = "tfjs_layers_model" THEN Returned(inf, "keras")
       ELSE Returned(inf, outf)
  ELSE IF outf = "tensorflowjs"
  THEN IF input_format_is_keras(inf)
       THEN Raised(Error("ValueError", "deprecated_output_format",
                         <<inf, "tfjs_layers_model">>))
       ELSE IF input_format_is_tf(inf)
       THEN Raised(Error("ValueError", "deprecated_output_format",
                         <<inf, "tfjs_graph_model">>))
       ELSE Returned(inf, outf)
  ELSE Returned(inf, outf)

----------------------------------------------------------------------------
(* main: flag applicability checks and the routing chain.                  *)

\* the two checks of main after standardisation; NoErr when both pass
\* variant: tf_frozen_model missing from the formats that take output_node_names
FlagApplicabilityErrorTwoFormats(flags, inf) ==
  IF Truthy(flags.output_node_names) /\
     inf \notin {"tf_saved_model", "tf_session_bundle"}
  THEN Error("ValueError", "output_node_names_not_applicable", <<flags.input_format>>)
  ELSE IF Truthy(flags.signature_name) /\ inf # "tf_hub"
  THEN Error("ValueError", "signature_name_not_applicable", <<inf>>)
  ELSE NoErr

FlagApplicabilityError(flags, inf) ==
  IF Truthy(flags.output_node_names) /\
     inf \notin {"tf_saved_model", "tf_session_bundle", "tf_frozen_model"}
  THEN Error("ValueError", "output_node_names_not_applicable", <<flags.input_format>>)
  ELSE IF Truthy(flags.signature_name) /\ inf # "tf_hub"
  THEN Error("ValueError", "signature_name_not_applicable", <<inf>>)
  ELSE NoErr

\* variant: the session-bundle branch tests for the wrong output format
RouteSessionBundleMistyped(inf, outf) ==
  IF inf = "keras" /\ outf = "tfjs_layers_model"
  THEN "dispatch_keras_h5_to_tensorflowjs_conversion"
  ELSE IF inf = "keras_saved_model" /\ outf = "tfjs_layers_model"
  THEN "dispatch_keras_saved_model_to_tensorflowjs_conversion"
  ELSE IF inf = "tf_saved_model" /\ outf = "tfjs_graph_model"
  THEN "convert_tf_saved_model"
  ELSE IF inf = "tf_session_bundle" /\ outf = "tfjs_layers_model"
  THEN "convert_tf_session_bundle"
  ELSE IF inf = "tf_frozen_model" /\ outf = "tfjs_graph_model"
  THEN "convert_tf_frozen_model"
  ELSE IF inf = "tf_hub" /\ outf = "tfjs_graph_model"
  THEN "convert_tf_hub_module"
  ELSE IF inf = "tfjs_layers_model" /\ outf = "keras"
  THEN "dispatch_tensorflowjs_to_keras_h5_conversion"
  ELSE None

\* the if/elif chain of main: the routine selected for a pair, None if none
Route(inf, outf) ==
  IF inf = "keras" /\ outf = "tfjs_layers_model"
  THEN "dispatch_keras_h5_to_tensorflowjs_conversion"
  ELSE IF inf = "keras_saved_model" /\ outf = "tfjs_layers_model"
  THEN "dispatch_keras_saved_model_to_tensorflowjs_conversion"
  ELSE IF inf = "tf_saved_model" /\ outf = "tfjs_graph_model"
  THEN "convert_tf_saved_model"
  ELSE IF inf = "tf_session_bundle" /\ outf = "tfjs_graph_model"
  THEN "convert_tf_session_bundle"
  ELSE IF inf = "tf_frozen_model" /\ outf = "tfjs_graph_model"
  THEN "convert_tf_frozen_model"
  ELSE IF inf = "tf_hub" /\ outf = "tfjs_graph_model"
  THEN "convert_tf_hub_module"
  ELSE IF inf = "tfjs_layers_model" /\ outf = "keras"
  THEN "dispatch_tensorflowjs_to_keras_h5_conversion"
  ELSE None

\* where control goes when main calls the selected routine
EntryOf(routine) ==
  IF routine = "dispatch_keras_h5_to_tensorflowjs_conversion" THEN "h5_exists"
  ELSE IF routine = "dispatch_keras_saved_model_to_tensorflowjs_conversion" THEN "ksm_with"
  ELSE IF routine = "dispatch_tensorflowjs_to_keras_h5_conversion" THEN "t2k_isdir"
  ELSE "tf_convert"

\* the arguments main forwards to the selected routine
ArgsOf(routine, flags, qdtype) ==
  IF routine \in {"dispatch_keras_h5_to_tensorflowjs_conversion",
                  "dispatch_keras_saved_model_to_tensorflowjs_conversion"}
  THEN <<flags.input_path, flags.output_path, qdtype>>
  ELSE IF routine \in {"convert_tf_saved_model", "convert_tf_session_bundle",
                       "convert_tf_frozen_model"}
  THEN <<flags.input_path, flags.output_node_names, flags.output_path, qdtype>>
  ELSE IF routine = "convert_tf_hub_module"
  THEN IF Truthy(flags.signature_name)
       THEN <<flags.input_path, flags.output_path, flags.signature_name>>
       ELSE <<flags.input_path, flags.output_path>>
  ELSE <<flags.input_path, flags.output_path>>

\* variant: the contexts are entered without a with-statement and stay open
ExitContextsLeak(c) == c

\* leaving the with-blocks of a dispatch routine, normally or by exception
ExitContexts(c) == <<>>

\* an exception propagates out of main: every enclosing with-block is exited
Raise(e) ==
  /\ err' = e
  /\ pc' = "done"
  /\ ctx' = ExitContexts(ctx)

Init ==
  /\ FLAGS \in FlagSpace
  /\ fs \in [inp : InKinds, out : OutKinds, tmp : {"absent"}]
  /\ pc = "main"
  /\ input_format = None
  /\ output_format = None
  /\ quantization_dtype = None
  /\ h5_path = None
  /\ err = NoErr
  /\ invoked = <<>>
  /\ calls = <<>>
  /\ ctx = <<>>
  /\ written = FALSE
  /\ printed = FALSE
  /\ tempCreated = FALSE

\* main, --version: print the versions and return
ShowVersion ==
  /\ pc = "main"
  /\ FLAGS.show_version
  /\ printed' = TRUE
  /\ pc' = "done"
  /\ UNCHANGED <<FLAGS, fs, input_format, output_format, quantization_dtype,
                 h5_path, err, invoked, calls, ctx, written, tempCreated>>

\* variant: input_path is checked before the --version short-circuit
CheckInputPathBeforeVersion ==
  /\ pc = "main"
  /\ IF FLAGS.input_path = None
     THEN Raise(Error("ValueError", "input_path_must_be_set", <<>>))
     ELSE pc' = "standardize" /\ UNCHANGED <<err, ctx>>
  /\ UNCHANGED <<FLAGS, fs, input_format, output_format, quantization_dtype,
                 h5_path, invoked, calls, written, printed, tempCreated>>

\* main: the input_path check
CheckInputPath ==
  /\ pc = "main"
  /\ ~FLAGS.show_version
  /\ IF FLAGS.input_path = None
     THEN Raise(Error("ValueError", "input_path_must_be_set", <<>>))
     ELSE pc' = "standardize" /\ UNCHANGED <<err, ctx>>
  /\ UNCHANGED <<FLAGS, fs, input_format, output_format, quantization_dtype,
                 h5_path, invoked, calls, written, printed, tempCreated>>

\* main: input_format, output_format = _standardize_input_output_formats(...)
Standardize ==
  /\ pc = "standardize"
  /\ LET r == _standardize_input_output_formats(FLAGS.input_format, FLAGS.output_format)
     IN IF r.raised # NoErr
        THEN Raise(r.raised) /\ UNCHANGED <<input_format, output_format>>
        ELSE /\ input_format' = r.ret[1]
             /\ output_format' = r.ret[2]
             /\ pc' = "validate"
             /\ UNCHANGED <<err, ctx>>
  /\ UNCHANGED <<FLAGS, fs, quantization_dtype, h5_path, invoked, calls,
                 written, printed, tempCreated>>

\* main: quantization dtype lookup, then the two flag applicability checks
Validate ==
  /\ pc = "validate"
  /\ quantization_dtype' =
       IF Truthy(FLAGS.quantization_bytes)
       THEN QUANTIZATION_BYTES_TO_DTYPES[FLAGS.quantization_bytes] ELSE None
  /\ LET e == FlagApplicabilityError(FLAGS, input_format)
     IN IF e # NoErr THEN Raise(e)
        ELSE pc' = "route" /\ UNCHANGED <<err, ctx>>
  /\ UNCHANGED <<FLAGS, fs, input_format, output_format, h5_path, invoked,
                 calls, written, printed, tempCreated>>

\* main: the if/elif chain selects and calls one routine, or raises
RouteRequest ==
  /\ pc = "route"
  /\ LET routine == Route(input_format, output_format)
     IN IF routine = None
        THEN /\ Raise(Error("ValueError", "unsupported_pair",
                            <<input_format, output_format>>))
             /\ UNCHANGED <<invoked, h5_path>>
        ELSE /\ invoked' = Append(invoked,
                  [fn |-> routine, args |-> ArgsOf(routine, FLAGS, quantization_dtype)])
             /\ pc' = EntryOf(routine)
             /\ h5_path' = IF routine = "dispatch_keras_h5_to_tensorflowjs_conversion"
                           THEN FLAGS.input_path ELSE h5_path
             /\ UNCHANGED <<err, ctx>>
  /\ UNCHANGED <<FLAGS, fs, input_format, output_format, quantization_dtype,
                 calls, written, printed, tempCreated>>

----------------------------------------------------------------------------
(* dispatch_keras_h5_to_tensorflowjs_conversion(h5_path, output_dir, ...).  *)
(* Both callers pass FLAGS.output_path as output_dir.                      *)

\* where the routine returns to: its caller is main, or the SavedModel
\* dispatch when h5_path is the temporary file
H5Return == IF h5_path = "tmp" THEN "ksm_remove" ELSE "done"

\* the path checks on h5_path
H5Exists ==
  /\ pc = "h5_exists"
  /\ IF Kind(h5_path) = "absent"
     THEN Raise(Error("ValueError", "nonexistent_h5_path", <<h5_path>>))
     ELSE IF Kind(h5_path) = "dir"
     THEN Raise(Error("ValueError", "h5_path_is_directory", <<h5_path>>))
     ELSE pc' = "h5_read" /\ UNCHANGED <<err, ctx>>
  /\ UNCHANGED <<FLAGS, fs, input_format, output_format, quantization_dtype,
                 h5_path, invoked, calls, written, printed, tempCreated>>

\* h5py.File(h5_path) and the conversion of its content; either may fail
H5Read ==
  /\ pc = "h5_read"
  /\ calls' = Append(calls, [fn |-> "h5_to_tfjs_format", ctx |-> ctx])
  /\ \E ok \in BOOLEAN :
       IF ok THEN pc' = "h5_write" /\ UNCHANGED <<err, ctx>>
       ELSE Raise(Error("IOError", "h5_conversion_failed", <<h5_path>>))
  /\ UNCHANGED <<FLAGS, fs, input_format, output_format, quantization_dtype,
                 h5_path, invoked, written, printed, tempCreated>>

\* if output_dir: ... write_artifacts(...); return model_json, groups
H5Write ==
  /\ pc = "h5_write"
  /\ LET output_dir == FLAGS.output_path
     IN IF Truthy(output_dir)
        THEN IF IsFile(Kind(output_dir))
             THEN /\ Raise(Error("ValueError", "output_path_exists_as_file",
                                 <<output_dir>>))
                  /\ UNCHANGED <<fs, calls, written>>
             ELSE /\ calls' = Append(calls, [fn |-> "write_artifacts", ctx |-> ctx])
                  /\ \E ok \in BOOLEAN :
                       IF ok
                       THEN /\ fs' = [fs EXCEPT !.out = "dir"]
                            /\ written' = TRUE
                            /\ pc' = H5Return
                            /\ UNCHANGED <<err, ctx>>
                       ELSE /\ fs' = [fs EXCEPT !.out = "dir"]
                            /\ Raise(Error("IOError", "write_artifacts_failed",
                                           <<output_dir>>))
                            /\ UNCHANGED written
        ELSE /\ pc' = H5Return
             /\ UNCHANGED <<fs, calls, written, err, ctx>>
  /\ UNCHANGED <<FLAGS, input_format, output_format, quantization_dtype,
                 h5_path, invoked, printed, tempCreated>>

----------------------------------------------------------------------------
(* dispatch_keras_saved_model_to_tensorflowjs_conversion.                  *)

\* with tf.Graph().as_default(), tf.Session():
EnterContexts(c) == c \o <<"graph", "session">>

KsmWith ==
  /\ pc = "ksm_with"
  /\ ctx' = EnterContexts(ctx)
  /\ pc' = "ksm_load"
  /\ UNCHANGED <<FLAGS, fs, input_format, output_format, quantization_dtype,
                 h5_path, err, invoked, calls, written, printed, tempCreated>>

\* model = tf.contrib.saved_model.load_keras_model(keras_saved_model_path)
KsmLoad ==
  /\ pc = "ksm_load"
  /\ calls' = Append(calls, [fn |-> "saved_model.load_keras_model", ctx |-> ctx])
  /\ \E ok \in BOOLEAN :
       IF ok THEN pc' = "ksm_save" /\ UNCHANGED <<err, ctx>>
       ELSE Raise(Error("IOError", "load_keras_model_failed", <<FLAGS.input_path>>))
  /\ UNCHANGED <<FLAGS, fs, input_format, output_format, quantization_dtype,
                 h5_path, invoked, written, printed, tempCreated>>

\* temp_h5_path = tempfile.mktemp(...); model.save(temp_h5_path); assert isfile;
\* then the call of dispatch_keras_h5_to_tensorflowjs_conversion(temp_h5_path, ...)
KsmSave ==
  /\ pc = "ksm_save"
  /\ calls' = Append(calls, [fn |-> "model.save", ctx |-> ctx])
  /\ \E ok \in BOOLEAN :
       IF ok
       THEN /\ fs' = [fs EXCEPT !.tmp = "file"]
            /\ tempCreated' = TRUE
            /\ h5_path' = "tmp"
            /\ pc' = "h5_exists"
            /\ UNCHANGED <<err, ctx>>
       ELSE /\ Raise(Error("IOError", "model_save_failed", <<"tmp">>))
            /\ UNCHANGED <<fs, tempCreated, h5_path>>
  /\ UNCHANGED <<FLAGS, input_format, output_format, quantization_dtype,
                 invoked, written, printed>>

\* os.remove(temp_h5_path), reached when the recursive call returned; the
\* with-block ends and the routine returns to main
KsmRemove ==
  /\ pc = "ksm_remove"
  /\ fs' = [fs EXCEPT !.tmp = "absent"]
  /\ ctx' = ExitContexts(ctx)
  /\ pc' = "done"
  /\ UNCHANGED <<FLAGS, input_format, output_format, quantization_dtype,
                 h5_path, err, invoked, calls, written, printed, tempCreated>>

----------------------------------------------------------------------------
(* tf_saved_model_conversion.convert_tf_*: collaborators outside this file. *)
(* Contract: artifacts are written to the output path, or the call fails.   *)

TfConvertOutcomes(output_path) ==
  IF Truthy(output_path) THEN {"written", "failed"} ELSE {"failed"}

TfConvert ==
  /\ pc = "tf_convert"
  /\ calls' = Append(calls, [fn |-> invoked[Len(invoked)].fn, ctx |-> ctx])
  /\ \E o \in TfConvertOutcomes(FLAGS.output_path) :
       IF o = "written"
       THEN /\ written' = TRUE
            /\ fs' = [fs EXCEPT !.out = "dir"]
            /\ pc' = "done"
            /\ UNCHANGED <<err, ctx>>
       ELSE /\ Raise(Error("DelegatedConversionError", invoked[Len(invoked)].fn,
                           <<FLAGS.input_path>>))
            /\ UNCHANGED <<written, fs>>
  /\ UNCHANGED <<FLAGS, input_format, output_format, quantization_dtype,
                 h5_path, invoked, printed, tempCreated>>

----------------------------------------------------------------------------
(* dispatch_tensorflowjs_to_keras_h5_conversion(config_json_path, h5_path), *)
(* called with (FLAGS.input_path, FLAGS.output_path).                       *)

\* variant: the output path is not checked for being a directory
T2kPathErrorInputOnly(config_json_path, out_path) ==
  IF Kind(config_json_path) = "dir"
  THEN Error("ValueError", "input_path_is_directory", <<config_json_path>>)
  ELSE NoErr

\* the two os.path.isdir checks; NoErr when both pass.  os.path.isdir(None)
\* raises TypeError.
T2kPathError(config_json_path, out_path) ==
  IF Kind(config_json_path) = "dir"
  THEN Error("ValueError", "input_path_is_directory", <<config_json_path>>)
  ELSE IF out_path = None
  THEN Error("TypeError", "isdir_of_None", <<>>)
  ELSE IF Kind(out_path) = "dir"
  THEN Error("ValueError", "output_path_is_directory", <<out_path>>)
  ELSE NoErr

T2kIsdir ==
  /\ pc = "t2k_isdir"
  /\ LET e == T2kPathError(FLAGS.input_path, FLAGS.output_path)
     IN IF e # NoErr THEN Raise(e)
        ELSE pc' = "t2k_json" /\ UNCHANGED <<err, ctx>>
  /\ UNCHANGED <<FLAGS, fs, input_format, output_format, quantization_dtype,
                 h5_path, invoked, calls, written, printed, tempCreated>>

\* with open(config_json_path, 'rt') as f: json.load(f); NoErr when it parses
T2kJsonError(config_json_path) ==
  IF Kind(config_json_path) = "absent"
  THEN Error("IOError", "cannot_open", <<config_json_path>>)
  ELSE IF Kind(config_json_path) # "json"
  THEN Error("ValueError", "invalid_json_content", <<config_json_path>>)
  ELSE NoErr

T2kJson ==
  /\ pc = "t2k_json"
  /\ LET e == T2kJsonError(FLAGS.input_path)
     IN IF e # NoErr THEN Raise(e)
        ELSE pc' = "t2k_with" /\ UNCHANGED <<err, ctx>>
  /\ UNCHANGED <<FLAGS, fs, input_format, output_format, quantization_dtype,
                 h5_path, invoked, calls, written, printed, tempCreated>>

T2kWith ==
  /\ pc = "t2k_with"
  /\ ctx' = EnterContexts(ctx)
  /\ pc' = "t2k_load"
  /\ UNCHANGED <<FLAGS, fs, input_format, output_format, quantization_dtype,
                 h5_path, err, invoked, calls, written, printed, tempCreated>>

\* model = keras_tfjs_loader.load_keras_model(config_json_path)
T2kLoad ==
  /\ pc = "t2k_load"
  /\ calls' = Append(calls, [fn |-> "keras_tfjs_loader.load_keras_model", ctx |-> ctx])
  /\ \E ok \in BOOLEAN :
       IF ok THEN pc' = "t2k_save" /\ UNCHANGED <<err, ctx>>
       ELSE Raise(Error("IOError", "load_keras_model_failed", <<FLAGS.input_path>>))
  /\ UNCHANGED <<FLAGS, fs, input_format, output_format, quantization_dtype,
                 h5_path, invoked, written, printed, tempCreated>>

\* model.save(h5_path); print(...); the with-block ends.  Nothing can be
\* saved under the empty path.
T2kSave ==
  /\ pc = "t2k_save"
  /\ calls' = Append(calls, [fn |-> "model.save", ctx |-> ctx])
  /\ \E ok \in (IF Truthy(FLAGS.output_path) THEN BOOLEAN ELSE {FALSE}) :
       IF ok
       THEN /\ fs' = [fs EXCEPT !.out = "file"]
            /\ written' = TRUE
            /\ ctx' = ExitContexts(ctx)
            /\ pc' = "done"
            /\ UNCHANGED err
       ELSE /\ Raise(Error("IOError", "model_save_failed", <<FLAGS.output_path>>))
            /\ UNCHANGED <<fs, written>>
  /\ UNCHANGED <<FLAGS, input_format, output_format, quantization_dtype,
                 h5_path, invoked, printed, tempCreated>>

Next ==
  \/ ShowVersion
  \/ CheckInputPath
  \/ Standardize
  \/ Validate
  \/ RouteRequest
  \/ H5Exists
  \/ H5Read
  \/ H5Write
  \/ KsmWith
  \/ KsmLoad
  \/ KsmSave
  \/ KsmRemove
  \/ TfConvert
  \/ T2kIsdir
  \/ T2kJson
  \/ T2kWith
  \/ T2kLoad
  \/ T2kSave

Spec == Init /\ [][Next]_vars

----------------------------------------------------------------------------
(* Properties.                                                             *)

\* the routing table of the conversion router: pair -> routine
RoutingTable ==
  ( <<"keras", "tfjs_layers_model">> :>
       "dispatch_keras_h5_to_tensorflowjs_conversion" ) @@
  ( <<"keras_saved_model", "tfjs_layers_model">> :>
       "dispatch_keras_saved_model_to_tensorflowjs_conversion" ) @@
  ( <<"tf_saved_model", "tfjs_graph_model">> :> "convert_tf_saved_model" ) @@
  ( <<"tf_session_bundle", "tfjs_graph_model">> :> "convert_tf_session_bundle" ) @@
  ( <<"tf_frozen_model", "tfjs_graph_model">> :> "convert_tf_frozen_model" ) @@
  ( <<"tf_hub", "tfjs_graph_model">> :> "convert_tf_hub_module" ) @@
  ( <<"tfjs_layers_model", "keras">> :>
       "dispatch_tensorflowjs_to_keras_h5_conversion" )

KerasFamily == {"keras", "keras_saved_model"}
GraphFamily == {"tf_saved_model", "tf_session_bundle", "tf_frozen_model", "tf_hub"}
GraphStyle  == {"tf_saved_model", "tf_session_bundle", "tf_frozen_model"}

CalledFn(fn) == \E i \in DOMAIN calls : calls[i].fn = fn
RoutedTo(fn) == invoked # <<>> /\ invoked[1].fn = fn

\* C1: once the temporary HDF5 file has been created by the SavedModel
\* dispatch, it no longer exists when main has returned or raised.
C1_TempFileRemovedOnEveryExit ==
  (pc = "done" /\ tempCreated) => fs.tmp = "absent"

\* C2: with output format 'tensorflowjs' and any input format other than the
\* alias, standardisation raises the deprecation error (naming
\* tfjs_layers_model for the Keras family, tfjs_graph_model for the graph
\* family), and the alias never appears in a resolved pair.
C2_DeprecatedOutputAlwaysRejected ==
  [][ (pc = "standardize" /\ FLAGS.output_format = "tensorflowjs" /\
       FLAGS.input_format # "tensorflowjs")
      => /\ pc' = "done"
         /\ err'.tag = "deprecated_output_format"
         /\ FLAGS.input_format \in KerasFamily
              => err'.args = <<FLAGS.input_format, "tfjs_layers_model">>
         /\ FLAGS.input_format \in GraphFamily
              => err'.args = <<FLAGS.input_format, "tfjs_graph_model">>
         /\ output_format' # "tensorflowjs" ]_vars

\* C3: a run of main that is not a version query and ends without an error
\* has written the conversion artifacts to output_path.
C3_ConvertsOrFails ==
  (pc = "done" /\ ~FLAGS.show_version) => (written \/ err # NoErr)

\* C4: the router calls, exactly once, the routine the routing table gives
\* for the resolved pair; for a pair outside the table (an absent output
\* format included) it raises the unsupported-pair error naming both
\* formats and calls nothing; nothing else ever calls a conversion routine.
C4_RoutingTotalAndExhaustive ==
  [][ /\ pc = "route" =>
           /\ invoked = <<>>
           /\ IF <<input_format, output_format>> \in DOMAIN RoutingTable
              THEN /\ Len(invoked') = 1
                   /\ invoked'[1].fn = RoutingTable[<<input_format, output_format>>]
                   /\ err' = NoErr
                   /\ pc' # "done"
              ELSE /\ invoked' = <<>>
                   /\ pc' = "done"
                   /\ err' = Error("ValueError", "unsupported_pair",
                                   <<input_format, output_format>>)
      /\ pc # "route" => invoked' = invoked
      /\ \A inf \in InputFormats : Route(inf, None) = None ]_vars

C4_Witness ==
  /\ pc = "done"
  /\ err = NoErr
  /\ Len(invoked) = 1
  /\ invoked[1].fn = "convert_tf_hub_module"
  /\ written

C6_DeprecatedInputAlwaysRejected ==
  [][ (pc = "standardize" /\ FLAGS.input_format = "tensorflowjs") =>
        /\ pc' = "done"
        /\ err' = Error("ValueError", "deprecated_input_format",
                        <<"tfjs_layers_model">>)
        /\ input_format' = None
        /\ output_format' = None ]_vars

C6_Witness ==
  /\ pc = "done"
  /\ FLAGS.input_format = "tensorflowjs"
  /\ FLAGS.output_format = None
  /\ err.tag = "deprecated_input_format"
  /\ "tfjs_layers_model" \in {err.args[i] : i \in DOMAIN err.args}

C8_ContextsScopeBound ==
  /\ \A i \in DOMAIN calls :
       calls[i].fn \in {"saved_model.load_keras_model",
                        "keras_tfjs_loader.load_keras_model", "model.save"}
         => calls[i].ctx = <<"graph", "session">>
  /\ pc \in {"main", "standardize", "validate", "route", "done"} => ctx = <<>>

C8_Witness ==
  /\ pc = "done"
  /\ err # NoErr
  /\ CalledFn("model.save")
  /\ RoutedTo("dispatch_tensorflowjs_to_keras_h5_conversion")
  /\ ctx = <<>>

\* C9: with show_version set, main prints the version information and
\* returns without error, without resolving formats, validating flags or
\* calling any routine, whatever the other options are.
C9_VersionShortCircuits ==
  FLAGS.show_version =>
    /\ pc \in {"main", "done"}
    /\ pc = "done" => printed
    /\ err = NoErr
    /\ input_format = None
    /\ output_format = None
    /\ quantization_dtype = None
    /\ invoked = <<>>
    /\ calls = <<>>
    /\ ~written

C9_Witness ==
  /\ pc = "done"
  /\ printed
  /\ FLAGS.show_version
  /\ FLAGS.input_path = None
  /\ FLAGS.input_format = "tensorflowjs"
  /\ FLAGS.signature_name = "default"

\* C10: in the bundle-to-HDF5 dispatch the loader is called, and the HDF5
\* file saved, only when the input path is not a directory, its content is
\* JSON and the output path is not an existing directory; when a check
\* fails the routine ends in an error with the loader not called and
\* nothing written.
C10_LoaderOnlyAfterChecks ==
  RoutedTo("dispatch_tensorflowjs_to_keras_h5_conversion") =>
    LET checksPass == fs.inp = "json" /\ Kind(FLAGS.output_path) # "dir"
        loaded == CalledFn("keras_tfjs_loader.load_keras_model")
    IN /\ (loaded \/ CalledFn("model.save") \/ written) => checksPass
       /\ (~checksPass /\ pc = "done") => (err # NoErr /\ ~loaded /\ ~written)

C10_Witness ==
  /\ RoutedTo("dispatch_tensorflowjs_to_keras_h5_conversion")
  /\ pc = "done"
  /\ fs.inp = "json"
  /\ fs.out = "dir"
  /\ err.tag = "output_path_is_directory"
  /\ calls = <<>>
====
